---------------------------- MODULE Spec2Model ----------------------------
(***************************************************************************)
(* polyglot.go: the decode engine (decode.go).                             *)
(*                                                                         *)
(* A cursor is a sequence of bytes (integers 0..255).  Go indexes from 0,  *)
(* TLA+ sequences from 1: Go's b[i] is At(b, i), Go's b[i:] is From(b, i). *)
(*                                                                         *)
(* TLC's integers are 32 bits wide, so the uint16/uint32/uint64 and        *)
(* int32/int64 values the decoders build are kept as their set of one-bits *)
(* (bit i is in the set iff bit i of the machine word is 1; a signed value *)
(* is its two's complement word).  |, <<, >>, +1 and unary minus are       *)
(* computed on that word, truncated to its width as Go truncates them.     *)
(*                                                                         *)
(* A call of a decode function yields a record                             *)
(*    [panic, rem, val, err]                                               *)
(* rem the returned cursor, val the returned value, err "nil" or the name  *)
(* of the sentinel; panic = TRUE is Go's run-time panic on an index out of *)
(* range (nothing is returned then).                                       *)
(***************************************************************************)
EXTENDS Integers, Sequences, FiniteSets, TLC

VARIABLES b, buflen, calls, written, nread, sync, last

vars == <<b, buflen, calls, written, nread, sync, last>>

---------------------------------------------------------------------------
(* Constants of decode.go *)

VarIntLen16 == 3
VarIntLen32 == 5
VarIntLen64 == 10
continuation == 128

(* The kind registry (kind.go is not among the sources): sixteen distinct  *)
(* one-byte tags, in the order the data model lists them.                  *)
NilRawKind == 0
MapRawKind == 1
SliceRawKind == 2
BytesRawKind == 3
StringRawKind == 4
ErrorRawKind == 5
BoolRawKind == 6
Uint8RawKind == 7
Uint16RawKind == 8
Uint32RawKind == 9
StaticUint32RawKind == 10
Uint64RawKind == 11
Int32RawKind == 12
Int64RawKind == 13
Float32RawKind == 14
Float64RawKind == 15

trueBool == 1

KindTags == 0..15

---------------------------------------------------------------------------
(* Machine words as sets of one-bits *)

ByteBits(c) == {i \in 0..7 : (c \div (2^i)) % 2 = 1}

Shl(x, s, w) == {i + s : i \in {j \in x : j + s < w}}

Shr1(x) == {i - 1 : i \in x \ {0}}

(* x + 1 in a word of w bits *)
Inc(x, w) ==
    IF x = 0..(w-1) THEN {}
    ELSE LET k == CHOOSE j \in 0..(w-1) : j \notin x /\ \A i \in 0..(j-1) : i \in x
         IN  (x \ (0..(k-1))) \cup {k}

(* -x in a word of w bits: the complement plus one *)
Neg(x, w) == Inc((0..(w-1)) \ x, w)

(* Go slicing and indexing *)
At(s, i) == s[i + 1]

From(s, i) == SubSeq(s, i + 1, Len(s))

Upto(s, n) == SubSeq(s, 1, n)

(* int(size) as a natural number, defined for a size below 2^16 *)
RECURSIVE BitsToNat(_)
BitsToNat(x) ==
    IF x = {} THEN 0
    ELSE LET i == CHOOSE j \in x : TRUE IN 2^i + BitsToNat(x \ {i})

(* len(s) > int(size) - 1, int being 64 bits wide: no cursor of the model  *)
(* is 2^16 bytes long, so a size with a bit at or above 16 is never met.   *)
LenCovers(s, size) == (\A i \in size : i < 16) /\ Len(s) > BitsToNat(size) - 1

---------------------------------------------------------------------------
(* The outcomes of a call *)

Ok(rem, val) == [panic |-> FALSE, rem |-> rem, val |-> val, err |-> "nil"]

Fail(rem, zero, err) == [panic |-> FALSE, rem |-> rem, val |-> zero, err |-> err]

IndexPanic(zero) == [panic |-> TRUE, rem |-> <<>>, val |-> zero, err |-> "panic"]

NilSlice == [arr |-> "nil", data |-> <<>>]

NilError == [isNil |-> TRUE, msg |-> <<>>]

---------------------------------------------------------------------------
(* decode.go *)

(* A probe that reports the Nil tag without consuming it *)
decodeNilPeek(s) ==
    IF Len(s) > 0 /\ At(s, 0) = NilRawKind
    THEN Ok(s, TRUE)
    ELSE Ok(s, FALSE)

decodeNil(s) ==
    IF Len(s) > 0 /\ At(s, 0) = NilRawKind
    THEN Ok(From(s, 1), TRUE)
    ELSE Ok(s, FALSE)

(* A fixed-width decode that advances by the four payload bytes only *)
decodeStaticUint32Short(s) ==
    IF Len(s) > 4 /\ At(s, 0) = StaticUint32RawKind
    THEN Ok(From(s, 4),
            ByteBits(At(s, 4)) \cup Shl(ByteBits(At(s, 3)), 8, 32)
              \cup Shl(ByteBits(At(s, 2)), 16, 32) \cup Shl(ByteBits(At(s, 1)), 24, 32))
    ELSE Fail(s, {}, "InvalidUint32")

decodeStaticUint32(s) ==
    IF Len(s) > 4 /\ At(s, 0) = StaticUint32RawKind
    THEN Ok(From(s, 5),
            ByteBits(At(s, 4)) \cup Shl(ByteBits(At(s, 3)), 8, 32)
              \cup Shl(ByteBits(At(s, 2)), 16, 32) \cup Shl(ByteBits(At(s, 1)), 24, 32))
    ELSE Fail(s, {}, "InvalidUint32")

decodeMap(s, keyKind, valueKind) ==
    IF Len(s) > 2 /\ At(s, 0) = MapRawKind /\ At(s, 1) = keyKind /\ At(s, 2) = valueKind
    THEN LET r == decodeStaticUint32(From(s, 3))
         IN  IF r.err # "nil" THEN Fail(r.rem, {}, "InvalidMap")
             ELSE Ok(r.rem, r.val)
    ELSE Fail(s, {}, "InvalidMap")

decodeSlice(s, kind) ==
    IF Len(s) > 1 /\ At(s, 0) = SliceRawKind /\ At(s, 1) = kind
    THEN LET r == decodeStaticUint32(From(s, 2))
         IN  IF r.err # "nil" THEN Fail(r.rem, {}, "InvalidSlice")
             ELSE Ok(r.rem, r.val)
    ELSE Fail(s, {}, "InvalidSlice")

(* ret is the caller's destination: [arr, data, cap], arr "nil" for a nil  *)
(* slice and "dest" for the caller's backing array; the returned slice is  *)
(* [arr, data], arr "fresh" for a backing array the call allocated.        *)
BytesInto(ret, payload) ==
    IF Len(ret.data) < Len(payload)
    THEN IF ret.arr = "nil"
         THEN [arr |-> "fresh", data |-> payload]
         ELSE IF ret.cap >= Len(payload)
              THEN [arr |-> ret.arr, data |-> payload]
              ELSE [arr |-> "fresh", data |-> payload]
    ELSE [arr |-> ret.arr,
          data |-> payload \o SubSeq(ret.data, Len(payload) + 1, Len(ret.data))]

decodeBytes(s, ret) ==
    IF Len(s) > 0 /\ At(s, 0) = BytesRawKind
    THEN LET r == decodeStaticUint32(From(s, 1))
         IN  IF r.err # "nil" THEN Fail(r.rem, NilSlice, "InvalidBytes")
             ELSE IF LenCovers(r.rem, r.val)
                  THEN LET size == BitsToNat(r.val)
                       IN  Ok(From(r.rem, size), BytesInto(ret, Upto(r.rem, size)))
                  ELSE Fail(r.rem, NilSlice, "InvalidBytes")
    ELSE Fail(s, NilSlice, "InvalidBytes")

decodeString(s) ==
    IF Len(s) > 0 /\ At(s, 0) = StringRawKind
    THEN LET r == decodeStaticUint32(From(s, 1))
         IN  IF r.err # "nil" THEN Fail(r.rem, <<>>, "InvalidString")
             ELSE IF LenCovers(r.rem, r.val)
                  THEN LET size == BitsToNat(r.val)
                       IN  Ok(From(r.rem, size), Upto(r.rem, size))
                  ELSE Fail(r.rem, <<>>, "InvalidString")
    ELSE Fail(s, <<>>, "InvalidString")

decodeError(s) ==
    IF Len(s) > 0 /\ At(s, 0) = ErrorRawKind
    THEN LET r == decodeString(From(s, 1))
         IN  IF r.err # "nil" THEN Fail(r.rem, NilError, "InvalidError")
             ELSE Ok(r.rem, [isNil |-> FALSE, msg |-> r.val])
    ELSE Fail(s, NilError, "InvalidError")

(* A Bool decode that does not look at the tag *)
decodeBoolAnyTag(s) ==
    IF Len(s) > 1
    THEN IF At(s, 1) = trueBool THEN Ok(From(s, 2), TRUE) ELSE Ok(From(s, 2), FALSE)
    ELSE Fail(s, FALSE, "InvalidBool")

decodeBool(s) ==
    IF Len(s) > 1 /\ At(s, 0) = BoolRawKind
    THEN IF At(s, 1) = trueBool THEN Ok(From(s, 2), TRUE) ELSE Ok(From(s, 2), FALSE)
    ELSE Fail(s, FALSE, "InvalidBool")

decodeUint8(s) ==
    IF Len(s) > 1 /\ At(s, 0) = Uint8RawKind
    THEN Ok(From(s, 2), At(s, 1))
    ELSE Fail(s, 0, "InvalidUint8")

(* The loop of decodeUint16 and decodeUint64, entered at index i with the  *)
(* accumulator x and the shift sh: maxLen is VarIntLen16 or VarIntLen64, w *)
(* the width of x, overflow the sentinel of the overflow return and        *)
(* invalid the sentinel of the return after the loop.                      *)
RECURSIVE VarintLoop(_, _, _, _, _, _, _, _)
VarintLoop(s, i, x, sh, maxLen, w, overflow, invalid) ==
    IF ~(i < maxLen + 1) THEN Fail(s, {}, invalid)
    ELSE IF ~(i < Len(s)) THEN IndexPanic({})
    ELSE LET cb == At(s, i) IN
         IF cb < continuation
         THEN IF i > maxLen /\ cb > 1
              THEN Fail(s, {}, overflow)
              ELSE Ok(From(s, i + 1), x \cup Shl(ByteBits(cb), sh, w))
         ELSE VarintLoop(s, i + 1, x \cup Shl(ByteBits(cb % continuation), sh, w),
                         sh + 7, maxLen, w, overflow, invalid)

decodeUint16(s) ==
    IF Len(s) > 1 /\ At(s, 0) = Uint16RawKind
    THEN VarintLoop(s, 1, {}, 0, VarIntLen16, 16, "InvalidUint32", "InvalidUint16")
    ELSE Fail(s, {}, "InvalidUint16")

decodeUint64(s) ==
    IF Len(s) > 1 /\ At(s, 0) = Uint64RawKind
    THEN VarintLoop(s, 1, {}, 0, VarIntLen64, 64, "InvalidUint64", "InvalidUint64")
    ELSE Fail(s, {}, "InvalidUint64")

(* A fifth byte that rejects every value above 1 *)
Fifth32Checked(s, x) ==
    IF ~(5 < Len(s)) THEN IndexPanic({})
    ELSE LET cb == At(s, 5) IN
         IF cb < continuation /\ cb <= 1 THEN Ok(From(s, 6), x \cup Shl(ByteBits(cb), 28, 32))
         ELSE Fail(s, {}, "InvalidUint32")

(* The fifth and last read of decodeUint32, b[5], onto the accumulator x;  *)
(* a continuation byte there falls through to the final return.            *)
Fifth32(s, x) ==
    IF ~(5 < Len(s)) THEN IndexPanic({})
    ELSE LET cb == At(s, 5) IN
         IF cb < continuation THEN Ok(From(s, 6), x \cup Shl(ByteBits(cb), 28, 32))
         ELSE Fail(s, {}, "InvalidUint32")

(* decodeUint32 is unrolled: five reads, b[1] to b[5], the first guarded   *)
(* by len(b) > 1 and the other four by nothing but Go's bounds check.      *)
decodeUint32(s) ==
    IF Len(s) > 1 /\ At(s, 0) = Uint32RawKind
    THEN LET cb1 == At(s, 1) IN
         IF cb1 < continuation THEN Ok(From(s, 2), ByteBits(cb1))
         ELSE LET x1 == ByteBits(cb1 % continuation) IN
         IF ~(2 < Len(s)) THEN IndexPanic({})
         ELSE LET cb2 == At(s, 2) IN
         IF cb2 < continuation THEN Ok(From(s, 3), x1 \cup Shl(ByteBits(cb2), 7, 32))
         ELSE LET x2 == x1 \cup Shl(ByteBits(cb2 % continuation), 7, 32) IN
         IF ~(3 < Len(s)) THEN IndexPanic({})
         ELSE LET cb3 == At(s, 3) IN
         IF cb3 < continuation THEN Ok(From(s, 4), x2 \cup Shl(ByteBits(cb3), 14, 32))
         ELSE LET x3 == x2 \cup Shl(ByteBits(cb3 % continuation), 14, 32) IN
         IF ~(4 < Len(s)) THEN IndexPanic({})
         ELSE LET cb4 == At(s, 4) IN
         IF cb4 < continuation THEN Ok(From(s, 5), x3 \cup Shl(ByteBits(cb4), 21, 32))
         ELSE LET x4 == x3 \cup Shl(ByteBits(cb4 % continuation), 21, 32) IN
         Fifth32(s, x4)
    ELSE Fail(s, {}, "InvalidUint32")

(* A sign step that forgets the + 1 *)
Sign32NoInc(x) == IF 0 \in x THEN Neg(Shr1(x), 32) ELSE Shr1(x)

(* The sign step of decodeInt32 on the raw word x: -(int32(x>>1) + 1) when *)
(* x is odd, int32(x>>1) when it is even.                                  *)
Sign32(x) == IF 0 \in x THEN Neg(Inc(Shr1(x), 32), 32) ELSE Shr1(x)

decodeInt32(s) ==
    IF Len(s) > 1 /\ At(s, 0) = Int32RawKind
    THEN LET cb1 == At(s, 1) IN
         IF cb1 < continuation
         THEN Ok(From(s, 2),
                 IF 0 \in ByteBits(cb1)
                 THEN Neg(Inc(Shr1(ByteBits(cb1)), 32), 32)
                 ELSE Shr1(ByteBits(cb1)))
         ELSE LET x1 == ByteBits(cb1 % continuation) IN
         IF ~(2 < Len(s)) THEN IndexPanic({})
         ELSE LET cb2 == At(s, 2) IN
         IF cb2 < continuation
         THEN Ok(From(s, 3), Sign32(x1 \cup Shl(ByteBits(cb2), 7, 32)))
         ELSE LET x2 == x1 \cup Shl(ByteBits(cb2 % continuation), 7, 32) IN
         IF ~(3 < Len(s)) THEN IndexPanic({})
         ELSE LET cb3 == At(s, 3) IN
         IF cb3 < continuation
         THEN Ok(From(s, 4), Sign32(x2 \cup Shl(ByteBits(cb3), 14, 32)))
         ELSE LET x3 == x2 \cup Shl(ByteBits(cb3 % continuation), 14, 32) IN
         IF ~(4 < Len(s)) THEN IndexPanic({})
         ELSE LET cb4 == At(s, 4) IN
         IF cb4 < continuation
         THEN Ok(From(s, 5), Sign32(x3 \cup Shl(ByteBits(cb4), 21, 32)))
         ELSE LET x4 == x3 \cup Shl(ByteBits(cb4 % continuation), 21, 32) IN
         IF ~(5 < Len(s)) THEN IndexPanic({})
         ELSE LET cb5 == At(s, 5) IN
         IF cb5 < continuation
         THEN Ok(From(s, 6), Sign32(x4 \cup Shl(ByteBits(cb5), 28, 32)))
         ELSE Fail(s, {}, "InvalidInt32")
    ELSE Fail(s, {}, "InvalidInt32")

(* A sign step that tests the top bit instead of the low one *)
Sign64TopBit(ux) == IF 63 \in ux THEN Neg(Inc(Shr1(ux), 64), 64) ELSE Shr1(ux)

(* The sign step of decodeInt64 on the raw word ux *)
Sign64(ux) == IF 0 \in ux THEN Neg(Inc(Shr1(ux), 64), 64) ELSE Shr1(ux)

(* The loop of decodeInt64, entered at index i *)
RECURSIVE Int64Loop(_, _, _, _)
Int64Loop(s, i, ux, sh) ==
    IF ~(i < VarIntLen64 + 1) THEN Fail(s, {}, "InvalidInt64")
    ELSE IF ~(i < Len(s)) THEN IndexPanic({})
    ELSE LET cb == At(s, i) IN
         IF cb < continuation
         THEN IF i > VarIntLen64 /\ cb > 1
              THEN Fail(s, {}, "InvalidInt64")
              ELSE Ok(From(s, i + 1), Sign64(ux \cup Shl(ByteBits(cb), sh, 64)))
         ELSE Int64Loop(s, i + 1, ux \cup Shl(ByteBits(cb % continuation), sh, 64), sh + 7)

decodeInt64(s) ==
    IF Len(s) > 1 /\ At(s, 0) = Int64RawKind
    THEN Int64Loop(s, 1, {}, 0)
    ELSE Fail(s, {}, "InvalidInt64")

(* math.Float32frombits and math.Float64frombits reinterpret the word: the *)
(* float is kept as its IEEE-754 bit pattern.                              *)
decodeFloat32(s) ==
    IF Len(s) > 4 /\ At(s, 0) = Float32RawKind
    THEN Ok(From(s, 5),
            ByteBits(At(s, 4)) \cup Shl(ByteBits(At(s, 3)), 8, 32)
              \cup Shl(ByteBits(At(s, 2)), 16, 32) \cup Shl(ByteBits(At(s, 1)), 24, 32))
    ELSE Fail(s, {}, "InvalidFloat32")

decodeFloat64(s) ==
    IF Len(s) > 8 /\ At(s, 0) = Float64RawKind
    THEN Ok(From(s, 9),
            ByteBits(At(s, 8)) \cup Shl(ByteBits(At(s, 7)), 8, 64)
              \cup Shl(ByteBits(At(s, 6)), 16, 64) \cup Shl(ByteBits(At(s, 5)), 24, 64)
              \cup Shl(ByteBits(At(s, 4)), 32, 64) \cup Shl(ByteBits(At(s, 3)), 40, 64)
              \cup Shl(ByteBits(At(s, 2)), 48, 64) \cup Shl(ByteBits(At(s, 1)), 56, 64))
    ELSE Fail(s, {}, "InvalidFloat64")

---------------------------------------------------------------------------
(* The wire format the encoder writes (encode.go is not among the sources: *)
(* this is section 6 of the specification and the encode rules of section  *)
(* 4).  A value is [kind, v]: v a word for the integer and float kinds, a  *)
(* byte for Uint8, a boolean for Bool and Nil, a byte sequence for String, *)
(* Bytes and Error, [elem, n] for a Slice header and [key, val, n] for a   *)
(* Map header.                                                             *)

(* The byte made of bits k .. k+n-1 of x *)
RECURSIVE Field(_, _, _)
Field(x, k, n) ==
    IF n = 0 THEN 0
    ELSE (IF k \in x THEN 1 ELSE 0) + 2 * Field(x, k + 1, n - 1)

TopBit(x) == CHOOSE i \in x : \A j \in x : j <= i

VarintLen(x) == IF x = {} THEN 1 ELSE (TopBit(x) \div 7) + 1

EncodeVarint(x) ==
    [k \in 1..VarintLen(x) |->
        Field(x, 7 * (k - 1), 7) + (IF k < VarintLen(x) THEN continuation ELSE 0)]

ZigzagEncode(n, w) ==
    IF (w - 1) \in n
    THEN Shl((0..(w-1)) \ n, 1, w) \cup {0}
    ELSE Shl(n, 1, w)

BigEndian(x, nbytes) == [k \in 1..nbytes |-> Field(x, 8 * (nbytes - k), 8)]

EncodeStaticUint32(x) == <<StaticUint32RawKind>> \o BigEndian(x, 4)

(* The word of a natural number below 2^31 *)
Word(n) == {i \in 0..30 : (n \div (2^i)) % 2 = 1}

Encode(val) ==
    CASE val.kind = "Nil" -> <<NilRawKind>>
      [] val.kind = "Map" ->
            <<MapRawKind, val.v.key, val.v.val>> \o EncodeStaticUint32(val.v.n)
      [] val.kind = "Slice" ->
            <<SliceRawKind, val.v.elem>> \o EncodeStaticUint32(val.v.n)
      [] val.kind = "Bytes" ->
            <<BytesRawKind>> \o EncodeStaticUint32(Word(Len(val.v))) \o val.v
      [] val.kind = "String" ->
            <<StringRawKind>> \o EncodeStaticUint32(Word(Len(val.v))) \o val.v
      [] val.kind = "Error" ->
            <<ErrorRawKind, StringRawKind>> \o EncodeStaticUint32(Word(Len(val.v))) \o val.v
      [] val.kind = "Bool" -> <<BoolRawKind, IF val.v THEN trueBool ELSE 0>>
      [] val.kind = "Uint8" -> <<Uint8RawKind, val.v>>
      [] val.kind = "Uint16" -> <<Uint16RawKind>> \o EncodeVarint(val.v)
      [] val.kind = "Uint32" -> <<Uint32RawKind>> \o EncodeVarint(val.v)
      [] val.kind = "StaticUint32" -> EncodeStaticUint32(val.v)
      [] val.kind = "Uint64" -> <<Uint64RawKind>> \o EncodeVarint(val.v)
      [] val.kind = "Int32" -> <<Int32RawKind>> \o EncodeVarint(ZigzagEncode(val.v, 32))
      [] val.kind = "Int64" -> <<Int64RawKind>> \o EncodeVarint(ZigzagEncode(val.v, 64))
      [] val.kind = "Float32" -> <<Float32RawKind>> \o BigEndian(val.v, 4)
      [] val.kind = "Float64" -> <<Float64RawKind>> \o BigEndian(val.v, 8)

RECURSIVE EncodeAll(_)
EncodeAll(vals) ==
    IF vals = <<>> THEN <<>> ELSE Encode(Head(vals)) \o EncodeAll(Tail(vals))


---------------------------------------------------------------------------
(* The bounded inputs *)

MaxPayload == 2
MaxValues == 3
MaxCont == 10
MaxRaw == 2
MaxDest == 3

SeqsUpTo(S, n) == UNION {[1..k -> S] : k \in 0..n}

Val(kind, v) == [kind |-> kind, v |-> v]

(* Payload bytes: a letter, and a byte that is also a kind tag *)
PayloadBytes == {97, StringRawKind}

Payloads == SeqsUpTo(PayloadBytes, MaxPayload)

(* The element kinds a caller passes to decodeSlice and decodeMap *)
ParamKinds == {StringRawKind, Uint32RawKind}

Words16 == {{}, Word(1), Word(127), Word(128), Word(300), Word(16383), Word(16384), 0..15}

Words32 == {{}, Word(1), Word(127), Word(128), Word(300), Word(2097152), {28}, {31}, 0..31}

Words64 == {{}, Word(1), Word(300), {35}, {56}, {62}, {63}, 0..63}

(* 0, 1, -1, 2, -2, 300, -300, the maximum and the minimum of the width *)
Ints(w) ==
    {{}, {0}, 0..(w-1), {1}, 1..(w-1), Word(300), Neg(Word(300), w), 0..(w-2), {w-1}}

(* +0, -0, 1.0, +Inf, -Inf and a NaN, as bit patterns *)
Floats32 == {{}, {31}, 23..29, 23..30, 23..31, 22..30}

Floats64 == {{}, {63}, 52..61, 52..62, 52..63, 51..62}

Counts == {{}, Word(3), 0..31}

Values ==
    {Val("Nil", TRUE)}
    \cup {Val("Map", [key |-> k, val |-> v, n |-> n]) :
             k \in ParamKinds, v \in ParamKinds, n \in {{}, Word(3)}}
    \cup {Val("Slice", [elem |-> k, n |-> n]) : k \in ParamKinds, n \in Counts}
    \cup {Val("Bytes", p) : p \in Payloads}
    \cup {Val("String", p) : p \in Payloads}
    \cup {Val("Error", p) : p \in Payloads}
    \cup {Val("Bool", t) : t \in BOOLEAN}
    \cup {Val("Uint8", c) : c \in {0, 1, 128, 255}}
    \cup {Val("Uint16", x) : x \in Words16}
    \cup {Val("Uint32", x) : x \in Words32}
    \cup {Val("StaticUint32", x) : x \in Counts \cup {Word(300)}}
    \cup {Val("Uint64", x) : x \in Words64}
    \cup {Val("Int32", x) : x \in Ints(32)}
    \cup {Val("Int64", x) : x \in Ints(64)}
    \cup {Val("Float32", x) : x \in Floats32}
    \cup {Val("Float64", x) : x \in Floats64}

(* One value of each kind, for the longer streams and for the inputs       *)
(* derived from an encoding                                                *)
Samples ==
    {Val("Nil", TRUE), Val("Map", [key |-> StringRawKind, val |-> Uint32RawKind, n |-> Word(3)]),
     Val("Slice", [elem |-> StringRawKind, n |-> Word(3)]), Val("Bytes", <<97, 97>>),
     Val("String", <<97, 97>>), Val("Error", <<97>>), Val("Bool", TRUE), Val("Uint8", 255),
     Val("Uint16", 0..15), Val("Uint32", 0..31), Val("StaticUint32", Word(300)),
     Val("Uint64", 0..63), Val("Int32", {31}), Val("Int64", {63}),
     Val("Float32", 23..29), Val("Float64", 52..61)}

(* The values that follow the first one of a written stream *)
TailValues == {Val("Uint32", Word(300)), Val("String", <<97>>)}

(* A written stream: any one value, or a value of any kind followed by up  *)
(* to MaxValues - 1 more.                                                  *)
Streams ==
    {<<v>> : v \in Values}
    \cup {<<v>> \o t : v \in Samples, t \in SeqsUpTo(TailValues, MaxValues - 1)}

(* Every strict prefix of the encoding of a value *)
Truncated == UNION {{Upto(Encode(v), n) : n \in 0..(Len(Encode(v)) - 1)} : v \in Values}

(* The encoding of a value under the tag of another kind *)
Retagged == {<<t>> \o Tail(Encode(v)) : t \in KindTags, v \in Samples}

(* A varint tag, k continuation bytes and a last byte, or none *)
VarintTags == {Uint16RawKind, Uint32RawKind, Uint64RawKind, Int32RawKind, Int64RawKind}

VarintShaped ==
    {<<t>> \o [i \in 1..k |-> c] \o f :
        t \in VarintTags, k \in 0..MaxCont, c \in {128, 255},
        f \in {<<>>} \cup {<<x>> : x \in {0, 1, 2, 3, 15, 16, 127}}}

(* A String, Bytes or Error frame whose declared length and payload differ *)
Framed ==
    {h \o EncodeStaticUint32(n) \o p :
        h \in {<<BytesRawKind>>, <<StringRawKind>>, <<ErrorRawKind, StringRawKind>>},
        n \in {{}, Word(1), Word(2), Word(3), {16}, 0..31}, p \in Payloads}

(* Any tag, then up to MaxRaw bytes: the Nil tag, the true byte, another   *)
(* tag, the tag of a length prefix, a continuation byte                    *)
RawBytes == {NilRawKind, trueBool, StringRawKind, StaticUint32RawKind, continuation}

Raw == {<<>>} \cup {<<t>> \o r : t \in KindTags, r \in SeqsUpTo(RawBytes, MaxRaw)}

Malformed == Truncated \cup Retagged \cup VarintShaped \cup Framed \cup Raw

(* The destinations a caller passes to decodeBytes: none, or a slice of    *)
(* length n over the caller's array, holding old bytes, whose capacity is  *)
(* n or MaxDest.                                                           *)
NoDest == [arr |-> "nil", data |-> <<>>, cap |-> 0]

Dests ==
    {NoDest} \cup
    UNION {{[arr |-> "dest", data |-> [i \in 1..n |-> 238], cap |-> c] : c \in {n, MaxDest}} :
              n \in 0..MaxDest}


---------------------------------------------------------------------------
(* The caller: it holds a cursor b and calls one decode function at a time *)
(* on it, going on from the cursor the call returned.  buflen is the length *)
(* of the buffer it started from and calls the number of calls that        *)
(* succeeded so far.  written is the stream of values the buffer was       *)
(* encoded from (empty for a buffer that is not the encoding of a stream); *)
(* nread counts the values read back in write order, and sync says that    *)
(* the buffer is the encoding of written and the cursor still stands at    *)
(* the start of value nread + 1.  last records the last call: the          *)
(* function, its arguments, the cursor it was given, its outcome, and      *)
(* whether it was the decode function of the value the cursor stood at.    *)

NoCall == [fn |-> "none", arg |-> <<>>, in |-> <<>>, out |-> Ok(<<>>, FALSE), matched |-> FALSE]

Init ==
    /\ \/ /\ written \in Streams
          /\ b = EncodeAll(written)
          /\ sync = TRUE
       \/ /\ written = <<>>
          /\ b \in Malformed
          /\ sync = FALSE
    /\ buflen = Len(b)
    /\ calls = 0
    /\ nread = 0
    /\ last = NoCall

Expected == IF sync /\ nread < Len(written) THEN written[nread + 1] ELSE Val("none", 0)

Call(fn, arg, r, matched) ==
    /\ ~last.out.panic
    /\ last' = [fn |-> fn, arg |-> arg, in |-> b, out |-> r, matched |-> matched]
    /\ b' = IF r.panic THEN b ELSE r.rem
    /\ nread' = IF matched THEN nread + 1 ELSE nread
    /\ sync' = (sync /\ ~r.panic /\ (IF matched THEN r.err = "nil" ELSE r.rem = b))
    /\ calls' = IF ~r.panic /\ r.err = "nil" /\ (fn = "decodeNil" => r.val)
                THEN calls + 1 ELSE calls
    /\ UNCHANGED <<written, buflen>>

DecodeNil == Call("decodeNil", <<>>, decodeNil(b), Expected.kind = "Nil")

DecodeMap ==
    \E keyKind \in ParamKinds, valueKind \in ParamKinds :
        Call("decodeMap", <<keyKind, valueKind>>, decodeMap(b, keyKind, valueKind),
             Expected.kind = "Map" /\ Expected.v.key = keyKind /\ Expected.v.val = valueKind)

DecodeSlice ==
    \E kind \in ParamKinds :
        Call("decodeSlice", <<kind>>, decodeSlice(b, kind),
             Expected.kind = "Slice" /\ Expected.v.elem = kind)

DecodeBytes ==
    \E ret \in Dests :
        Call("decodeBytes", ret, decodeBytes(b, ret), Expected.kind = "Bytes")

DecodeString == Call("decodeString", <<>>, decodeString(b), Expected.kind = "String")

DecodeError == Call("decodeError", <<>>, decodeError(b), Expected.kind = "Error")

DecodeBool == Call("decodeBool", <<>>, decodeBool(b), Expected.kind = "Bool")

DecodeUint8 == Call("decodeUint8", <<>>, decodeUint8(b), Expected.kind = "Uint8")

DecodeUint16 == Call("decodeUint16", <<>>, decodeUint16(b), Expected.kind = "Uint16")

DecodeUint32 == Call("decodeUint32", <<>>, decodeUint32(b), Expected.kind = "Uint32")

DecodeStaticUint32 ==
    Call("decodeStaticUint32", <<>>, decodeStaticUint32(b), Expected.kind = "StaticUint32")

DecodeUint64 == Call("decodeUint64", <<>>, decodeUint64(b), Expected.kind = "Uint64")

DecodeInt32 == Call("decodeInt32", <<>>, decodeInt32(b), Expected.kind = "Int32")

DecodeInt64 == Call("decodeInt64", <<>>, decodeInt64(b), Expected.kind = "Int64")

DecodeFloat32 == Call("decodeFloat32", <<>>, decodeFloat32(b), Expected.kind = "Float32")

DecodeFloat64 == Call("decodeFloat64", <<>>, decodeFloat64(b), Expected.kind = "Float64")

Next ==
    \/ DecodeNil
    \/ DecodeMap
    \/ DecodeSlice
    \/ DecodeBytes
    \/ DecodeString
    \/ DecodeError
    \/ DecodeBool
    \/ DecodeUint8
    \/ DecodeUint16
    \/ DecodeUint32
    \/ DecodeStaticUint32
    \/ DecodeUint64
    \/ DecodeInt32
    \/ DecodeInt64
    \/ DecodeFloat32
    \/ DecodeFloat64

Spec == Init /\ [][Next]_vars


---------------------------------------------------------------------------
(* What the properties speak of *)

Fns ==
    {"decodeNil", "decodeMap", "decodeSlice", "decodeBytes", "decodeString", "decodeError",
     "decodeBool", "decodeUint8", "decodeUint16", "decodeUint32", "decodeStaticUint32",
     "decodeUint64", "decodeInt32", "decodeInt64", "decodeFloat32", "decodeFloat64"}

KindOf ==
    [decodeNil |-> "Nil", decodeMap |-> "Map", decodeSlice |-> "Slice",
     decodeBytes |-> "Bytes", decodeString |-> "String", decodeError |-> "Error",
     decodeBool |-> "Bool", decodeUint8 |-> "Uint8", decodeUint16 |-> "Uint16",
     decodeUint32 |-> "Uint32", decodeStaticUint32 |-> "StaticUint32",
     decodeUint64 |-> "Uint64", decodeInt32 |-> "Int32", decodeInt64 |-> "Int64",
     decodeFloat32 |-> "Float32", decodeFloat64 |-> "Float64"]

TagOf ==
    [decodeNil |-> NilRawKind, decodeMap |-> MapRawKind, decodeSlice |-> SliceRawKind,
     decodeBytes |-> BytesRawKind, decodeString |-> StringRawKind,
     decodeError |-> ErrorRawKind, decodeBool |-> BoolRawKind, decodeUint8 |-> Uint8RawKind,
     decodeUint16 |-> Uint16RawKind, decodeUint32 |-> Uint32RawKind,
     decodeStaticUint32 |-> StaticUint32RawKind, decodeUint64 |-> Uint64RawKind,
     decodeInt32 |-> Int32RawKind, decodeInt64 |-> Int64RawKind,
     decodeFloat32 |-> Float32RawKind, decodeFloat64 |-> Float64RawKind]

(* The sentinel of each function, as the specification names it *)
Sentinel ==
    [decodeMap |-> "InvalidMap", decodeSlice |-> "InvalidSlice",
     decodeBytes |-> "InvalidBytes", decodeString |-> "InvalidString",
     decodeError |-> "InvalidError", decodeBool |-> "InvalidBool",
     decodeUint8 |-> "InvalidUint8", decodeUint16 |-> "InvalidUint16",
     decodeUint32 |-> "InvalidUint32", decodeStaticUint32 |-> "InvalidUint32",
     decodeUint64 |-> "InvalidUint64", decodeInt32 |-> "InvalidInt32",
     decodeInt64 |-> "InvalidInt64", decodeFloat32 |-> "InvalidFloat32",
     decodeFloat64 |-> "InvalidFloat64"]

Called == last.fn # "none"

Returned == Called /\ ~last.out.panic

(* The call succeeded: a nil error, or decodeNil reporting true *)
Succeeded ==
    /\ Returned
    /\ last.out.err = "nil"
    /\ (last.fn = "decodeNil" => last.out.val)

Consumed == Len(last.in) - Len(last.out.rem)

IsSuffix(t, s) == Len(t) <= Len(s) /\ t = SubSeq(s, Len(s) - Len(t) + 1, Len(s))

Kinds == {KindOf[f] : f \in Fns}

(* The strict prefixes of the encodings of the values of each kind *)
StrictPrefixes ==
    [k \in Kinds |->
        UNION {{Upto(Encode(v), n) : n \in 0..(Len(Encode(v)) - 1)} :
                  v \in {x \in Values : x.kind = k}}]

(* The maximum byte count of the varint a function reads, 0 for the others *)
MaxVarint ==
    [f \in Fns |->
        CASE f = "decodeUint16" -> VarIntLen16
          [] f \in {"decodeUint32", "decodeInt32"} -> VarIntLen32
          [] f \in {"decodeUint64", "decodeInt64"} -> VarIntLen64
          [] OTHER -> 0]

(* The input holds, after the tag the function expects, a varint of n      *)
(* bytes: n - 1 continuation bytes and a last byte below 0x80.             *)
HasVarintOf(s, tag, n) ==
    /\ Len(s) > n
    /\ At(s, 0) = tag
    /\ \A i \in 1..(n - 1) : At(s, i) >= continuation
    /\ At(s, n) < continuation

---------------------------------------------------------------------------
(* C1: no call of a decode function indexes past the end of its input: it  *)
(* returns normally, whatever the bytes, and on a strict prefix of the     *)
(* encoding of a value of its kind it returns its error, not a value.      *)
C1_NoOutOfRange ==
    Called =>
        /\ ~last.out.panic
        /\ (last.fn # "decodeNil" /\ last.in \in StrictPrefixes[KindOf[last.fn]])
           => last.out.err = Sentinel[last.fn]

(* C2: a call that returns an error returns the cursor it was given.       *)
C2_ErrorReturnsOriginalCursor ==
    (Returned /\ last.fn # "decodeNil" /\ last.out.err # "nil") => last.out.rem = last.in

(* C3: a varint of the maximum byte count of its width whose last byte is  *)
(* above 1 is rejected with the function's Invalid error, no value.        *)
C3_OverflowRejected ==
    (/\ Called
     /\ MaxVarint[last.fn] > 0
     /\ HasVarintOf(last.in, TagOf[last.fn], MaxVarint[last.fn])
     /\ At(last.in, MaxVarint[last.fn]) > 1)
    => (~last.out.panic /\ last.out.err = Sentinel[last.fn] /\ last.out.val = {})

(* The payload a successful decodeBytes or decodeString call read *)
PayloadRead == SubSeq(last.in, 7, Consumed)

(* C4: a successful decodeBytes of a payload of length L into a non-empty  *)
(* destination of capacity at least L returns that destination, holding    *)
(* the payload and of length L, whatever the destination's length; with no *)
(* destination, or one of smaller capacity, it returns a buffer of length  *)
(* L holding the payload.                                                  *)
C4_BytesDestination ==
    (Called /\ last.fn = "decodeBytes" /\ Succeeded) =>
        LET L == Consumed - 6
            ret == last.arg
        IN  /\ (ret.arr = "dest" /\ Len(ret.data) > 0 /\ ret.cap >= L)
                   => (last.out.val.arr = "dest" /\ last.out.val.data = PayloadRead)
            /\ (ret.arr = "nil" \/ ret.cap < L)
                   => (Len(last.out.val.data) = L /\ last.out.val.data = PayloadRead)


(* The value a successful call returned, in the form the written value has *)
Decoded ==
    CASE last.fn = "decodeBytes" -> last.out.val.data
      [] last.fn = "decodeError" -> last.out.val.msg
      [] OTHER -> last.out.val

(* The written value, in the form the call returns it: the count of a      *)
(* Slice or Map header.                                                    *)
WrittenAs(v) == IF v.kind \in {"Slice", "Map"} THEN v.v.n ELSE v.v

(* A decodeBytes call made with a destination; every other call is not *)
WithDest == last.fn = "decodeBytes" /\ last.arg.arr # "nil"

(* C5: round trip.  The decode function of a value's kind, applied to the  *)
(* wire encoding of that value alone (decodeBytes without a destination),  *)
(* returns the value, no error and an empty cursor; [Uint32RawKind, 0xAC,  *)
(* 0x02] decodes to 300 and the zigzag code 1 to -1.                       *)
C5_RoundTrip ==
    /\ (Called /\ last.matched /\ Len(written) = 1 /\ ~WithDest) =>
          /\ Succeeded
          /\ last.in = Encode(written[1])
          /\ Decoded = WrittenAs(written[1])
          /\ last.out.rem = <<>>
    /\ (Called /\ last.fn = "decodeUint32" /\ last.in = <<Uint32RawKind, 172, 2>>) =>
          (Succeeded /\ last.out.val = Word(300) /\ last.out.rem = <<>>)
    /\ (Called /\ last.fn = "decodeInt32" /\ last.in = <<Int32RawKind, 1>>) =>
          (Succeeded /\ last.out.val = 0..31 /\ last.out.rem = <<>>)

C5_Witness ==
    /\ last.fn = "decodeInt32"
    /\ last.matched
    /\ written = <<Val("Int32", {31})>>
    /\ last.in = <<Int32RawKind, 255, 255, 255, 255, 15>>
    /\ last.out.val = {31}
    /\ b = <<>>

(* C6: tag enforcement.  A typed decode function given a buffer whose      *)
(* first byte is a kind tag other than its own fails with its own sentinel *)
(* (InvalidUint32 for decodeStaticUint32) and returns the cursor as given, *)
(* whatever follows the tag.                                               *)
C6_TagEnforcement ==
    (/\ Called
     /\ last.fn # "decodeNil"
     /\ Len(last.in) > 0
     /\ At(last.in, 0) \in KindTags
     /\ At(last.in, 0) # TagOf[last.fn])
    => (~last.out.panic /\ last.out.err = Sentinel[last.fn] /\ last.out.rem = last.in)

C6_Witness ==
    /\ last.fn = "decodeBool"
    /\ last.in = <<Uint8RawKind, 255>>
    /\ last.out.err = "InvalidBool"
    /\ b = <<Uint8RawKind, 255>>

(* The bytes of one written value, as the specification counts them *)
WireLen(v) ==
    CASE v.kind \in {"Bool", "Uint8"} -> 2
      [] v.kind \in {"StaticUint32", "Float32"} -> 5
      [] v.kind = "Float64" -> 9
      [] v.kind \in {"Uint16", "Uint32", "Uint64"} -> 1 + VarintLen(v.v)
      [] v.kind = "Int32" -> 1 + VarintLen(ZigzagEncode(v.v, 32))
      [] v.kind = "Int64" -> 1 + VarintLen(ZigzagEncode(v.v, 64))
      [] v.kind \in {"String", "Bytes"} -> 6 + Len(v.v)
      [] v.kind = "Error" -> 7 + Len(v.v)
      [] v.kind = "Slice" -> 7
      [] v.kind = "Map" -> 8
      [] v.kind = "Nil" -> 1

(* C7: ordering and exact consumption.  Reading a written stream back with *)
(* the decode functions of its values, in write order, each call returns   *)
(* the value written at its place and consumes exactly the bytes of that   *)
(* value, whatever follows it; after the last value the cursor is empty.   *)
C7_OrderAndConsumption ==
    /\ (Called /\ last.matched) =>
          /\ Succeeded
          /\ sync
          /\ ~WithDest => Decoded = WrittenAs(written[nread])
          /\ Consumed = WireLen(written[nread])
    /\ sync => b = EncodeAll(SubSeq(written, nread + 1, Len(written)))
    /\ (sync /\ nread = Len(written)) => b = <<>>

C7_Witness ==
    /\ sync
    /\ nread = 3
    /\ Len(written) = 3
    /\ written[1].kind = "Bytes"
    /\ written[2].kind = "Uint32"
    /\ written[3].kind = "String"
    /\ last.fn = "decodeString"
    /\ last.matched
    /\ b = <<>>

(* The loop of decodeUint16 and decodeUint64 at width 32, five bytes at    *)
(* most, under the tag and with the sentinel given.                        *)
Loop32(s, tag, invalid) ==
    IF Len(s) > 1 /\ At(s, 0) = tag
    THEN VarintLoop(s, 1, {}, 0, VarIntLen32, 32, invalid, invalid)
    ELSE Fail(s, {}, invalid)

(* C8: the unrolled decodeUint32 has the outcome of the generic loop at    *)
(* width 32 on every input (value, cursor, error or index panic), and      *)
(* decodeInt32 the outcome of that loop followed by the sign step.         *)
C8_UnrolledIsLoop ==
    /\ (Called /\ last.fn = "decodeUint32") =>
          last.out = Loop32(last.in, Uint32RawKind, "InvalidUint32")
    /\ (Called /\ last.fn = "decodeInt32") =>
          LET g == Loop32(last.in, Int32RawKind, "InvalidInt32")
          IN  /\ last.out.panic = g.panic
              /\ last.out.err = g.err
              /\ last.out.rem = g.rem
              /\ last.out.val = (IF g.err = "nil"
                                 THEN (IF 0 \in g.val THEN (0..31) \ Shr1(g.val)
                                       ELSE Shr1(g.val))
                                 ELSE {})

C8_Witness ==
    /\ last.fn = "decodeUint32"
    /\ last.in = <<Uint32RawKind, 255, 255, 255, 255, 127>>
    /\ last.out.err = "nil"
    /\ last.out.val = 0..31
    /\ b = <<>>

(* u >> 1 for an even u and -((u >> 1) + 1) for an odd one, in a word of w *)
(* bits: in two's complement -(x + 1) is the complement of x.              *)
ZigzagDecode(u, w) == IF 0 \in u THEN (0..(w-1)) \ Shr1(u) ELSE Shr1(u)

Success(r) == ~r.panic /\ r.err = "nil"

(* C9: decodeInt32 on [Int32RawKind] ++ p succeeds exactly when            *)
(* decodeUint32 on [Uint32RawKind] ++ p does, consumes as many bytes, and  *)
(* returns the zigzag separation of the unsigned result; likewise          *)
(* decodeInt64 against decodeUint64, so that 0, 1, 2, 3 give 0, -1, 1, -2. *)
C9_SignedIsUnsignedThenZigzag ==
    /\ (Called /\ last.fn = "decodeInt32" /\ Len(last.in) > 0
          /\ At(last.in, 0) = Int32RawKind) =>
          LET u == decodeUint32(<<Uint32RawKind>> \o Tail(last.in))
          IN  /\ Success(last.out) <=> Success(u)
              /\ Success(u) => /\ Len(last.out.rem) = Len(u.rem)
                               /\ last.out.val = ZigzagDecode(u.val, 32)
    /\ (Called /\ last.fn = "decodeInt64" /\ Len(last.in) > 0
          /\ At(last.in, 0) = Int64RawKind) =>
          LET u == decodeUint64(<<Uint64RawKind>> \o Tail(last.in))
          IN  /\ Success(last.out) <=> Success(u)
              /\ Success(u) => /\ Len(last.out.rem) = Len(u.rem)
                               /\ last.out.val = ZigzagDecode(u.val, 64)
    /\ \A c \in 0..3 :
          (Called /\ last.fn = "decodeInt64" /\ last.in = <<Int64RawKind, c>>) =>
              /\ Success(last.out)
              /\ last.out.val = (CASE c = 0 -> {} [] c = 1 -> 0..63
                                   [] c = 2 -> {0} [] c = 3 -> 1..63)

C9_Witness ==
    /\ last.fn = "decodeInt32"
    /\ last.in = <<Int32RawKind, 255, 255, 255, 255, 15>>
    /\ last.out.err = "nil"
    /\ last.out.val = {31}
    /\ decodeUint32(<<Uint32RawKind, 255, 255, 255, 255, 15>>).val = 0..31

(* C10: progress.  A call that returns returns a suffix of the cursor it   *)
(* was given, and a successful call a strictly shorter one; so the calls   *)
(* that succeeded never outnumber the bytes consumed, and a caller that    *)
(* stops at the first error makes at most len(input) calls.                *)
C10_Progress ==
    /\ Returned => IsSuffix(last.out.rem, last.in)
    /\ Succeeded => Len(last.out.rem) < Len(last.in)
    /\ calls + Len(b) <= buflen

C10_Witness ==
    /\ last.fn = "decodeNil"
    /\ last.out.val
    /\ buflen = 3
    /\ calls = 3
    /\ b = <<>>


=============================================================================
